---- MODULE Spec2Model ----
(***************************************************************************)
(* Connection-lifecycle manager of the Panama Papers API                   *)
(* (app/database.py): the Neo4jDatabase class state, init/close, scoped    *)
(* sessions and transactions, the with_retry wrapper and the query         *)
(* helpers, as coroutines that interleave at their await points.           *)
(***************************************************************************)
EXTENDS Integers, Sequences, FiniteSets, TLC

\* Bounds of the model: the driver handles that can be created in one run,
\* the statements of one run_transaction batch,
MaxDrivers == 2
MaxStmts == 2
\* and the largest max_retries a retry policy is given.
MaxRetries == 6

\* The coroutines that call into the manager; they interleave at awaits.
Tasks == {"t1", "t2"}
MainTask == "t1"
DriverIds == 1..MaxDrivers

\* Optional values: None is the empty tuple, Some(x) a one-element tuple.
None == << >>
Some(x) == << x >>

\* The value of _driver when no driver is held (None).
NoDriver == 0

-----------------------------------------------------------------------------
\* Configuration (Neo4jConfig) and its validation.

Schemes == {"bolt://", "bolt+s://", "neo4j://", "neo4j+s://"}

Configs ==
  { [uri |-> "bolt://a", password |-> "pw"],
    [uri |-> "neo4j+s://b", password |-> "pw"],
    [uri |-> "bolt://a", password |-> ""],
    [uri |-> "http://a", password |-> "pw"] }

\* What Neo4jConfig() reads from the environment: the defaults (no password
\* set) or a deployment's settings.
DefaultConfig == [uri |-> "bolt://localhost:7687", password |-> ""]
EnvConfigs == { DefaultConfig, [uri |-> "bolt://db:7687", password |-> "pw"] }

\* str.startswith(prefix)
StartsWith(s, p) == Len(s) >= Len(p) /\ SubSeq(s, 1, Len(p)) = p

ValidateNoSchemeCheck(cfg) ==
  IF Len(cfg.password) = 0 THEN "ValueError" ELSE "ok"

\* Neo4jConfig.validate: "ok" when it returns, else the exception it raises.
Validate(cfg) ==
  IF Len(cfg.password) = 0 THEN "ValueError"
  ELSE IF ~ \E p \in Schemes : StartsWith(cfg.uri, p) THEN "ValueError"
  ELSE "ok"

-----------------------------------------------------------------------------
\* Exception classes and isinstance.

Parent ==
  [ BaseException |-> "BaseException",
    Exception |-> "BaseException",
    CancelledError |-> "BaseException",
    ValueError |-> "Exception",
    RuntimeError |-> "Exception",
    AttributeError |-> "Exception",
    Neo4jError |-> "Exception",
    ClientError |-> "Neo4jError",
    AuthError |-> "ClientError",
    CypherSyntaxError |-> "ClientError",
    TransientError |-> "Neo4jError",
    DatabaseUnavailable |-> "TransientError",
    DriverError |-> "Exception",
    ConfigurationError |-> "DriverError",
    TransactionError |-> "DriverError",
    SessionExpired |-> "DriverError",
    ServiceUnavailable |-> "DriverError" ]

ExcClasses == DOMAIN Parent

RECURSIVE IsInstance(_, _)
IsInstance(e, c) ==
  IF e = c THEN TRUE
  ELSE IF Parent[e] = e THEN FALSE
  ELSE IsInstance(Parent[e], c)

-----------------------------------------------------------------------------
VARIABLES
  driver,        \* Neo4jDatabase._driver: NoDriver or a driver handle
  config,        \* Neo4jDatabase._config: None or Some(configuration)
  initialized,   \* Neo4jDatabase._initialized
  init_time,     \* Neo4jDatabase._init_time: None or Some(timestamp)
  clock,         \* datetime.utcnow(), a logical clock
  drivers,       \* each driver handle: "none" (not created), "open", "closed"
  closes,        \* per driver handle, the number of driver.close() calls
  pc,            \* per task, where its coroutine is suspended
  op,            \* per task, the operation it is in (or has just finished)
  result,        \* per task, the outcome of the call: "ok" or the exception
  held,          \* per task, the driver handle its pending await is on
  obs,           \* per task, what the call has done so far
  loc,           \* per task, the local variables of its coroutine
  sync_driver    \* _driver of the synchronous manager (Graph_final_project)

manager == << driver, config, initialized, init_time >>
scope == << loc, sync_driver >>
vars == << driver, config, initialized, init_time, clock, drivers, closes,
           pc, op, result, held, obs, loc, sync_driver >>

\* max_retries of with_retry, by default and for the three decorated helpers.
max_retries == 3

\* The parameters of with_retry (lines 144-147), delays in milliseconds:
\* the defaults, and the policies a decorated function may be given.
DefaultPolicy == [ max_retries |-> max_retries, base_delay |-> 1000,
                   max_delay |-> 30000, exponential_base |-> 2 ]
RetryPolicies == [ max_retries : {max_retries, MaxRetries},
                   base_delay : {1000, 500},
                   max_delay : {30000, 3000},
                   exponential_base : {2, 3} ]

\* HealthCheckResult (lines 463-477), before health_check has built one.
NoResult == [ status |-> "none", neo4j_connected |-> FALSE,
              neo4j_version |-> None, gds_available |-> None,
              gds_version |-> None, latency_ms |-> None,
              uptime_seconds |-> None, error |-> None ]

\* The JSONResponse of GET /health (main.py), before it is built: the
\* status field, the status code, checks["neo4j"] and the error field.
NoResp == [ status |-> "none", code |-> 0, neo4j |-> None, error |-> None ]

\* What a call has done: drivers created, connectivity probes, warnings and
\* errors logged, sessions opened, session.close() calls, queries issued,
\* tx.commit() / tx.rollback() / tx.close() calls, invocations of the
\* retry-wrapped function, backoff sleeps, the statements of the call
\* whose effects are committed in the database, and the number of times the
\* auto-committed statement of run_write has taken effect.
NoObs == [ created |-> 0, probes |-> 0, warnings |-> 0, errors |-> 0,
           sessions |-> 0, sclosed |-> 0, queries |-> 0,
           commits |-> 0, rollbacks |-> 0, txcloses |-> 0,
           calls |-> 0, sleeps |-> 0, effects |-> {}, applied |-> 0 ]

\* Locals of a coroutine: its session and its transaction ("none", "open",
\* "closed"), the outcome that is propagating through its scopes ("ok" or an
\* exception), the size of the batch, the statements that have succeeded,
\* the statement that failed (0: none), the outcome of the transaction
\* scope's body ("run" until it has ended), the retry attempt, and the
\* outcome of the last attempt of the wrapped function.
\* For a call of a function decorated with with_retry: the policy, the
\* delay computed for the last retry before jitter (milliseconds) and the
\* delay being slept, after jitter (in 1/2000 of a millisecond; 0: not
\* sleeping).
\* For a call of health_check: its argument, what the liveness probe gave
\* ("none": not run, "one", "other", "raised"), the measured latency, the
\* version of the server-identity record, what the extension probe gave
\* ("none": not run, "present", "empty", or the exception), the step whose
\* exception is propagating ("none", "open", "live", "info", "gds",
\* "close"), and the HealthCheckResult being returned. For a request of
\* GET /health: that health_check is called by the endpoint, DATABASE_AVAILABLE
\* of the process, and the response. For the coroutine that runs a lifespan
\* scope: which one ("main": lifespan of main.py, "neo4j": neo4j_lifespan),
\* where it is ("startup", "serving": suspended at its yield, "left"),
\* API_ENV, and how the scope was left ("ok" or the exception).
NoLoc == [ sess |-> "none", tx |-> "none", err |-> "ok", n |-> 0, k |-> 0,
           failedAt |-> 0, body |-> "run", attempt |-> 0, raised |-> "ok",
           policy |-> DefaultPolicy, delay |-> 0, slept |-> 0,
           detailed |-> FALSE, live |-> "none", latency |-> 0,
           server |-> None, gds |-> "none", step |-> "none",
           ret |-> NoResult,
           endpoint |-> FALSE, available |-> TRUE, resp |-> NoResp,
           lifespan |-> "none", phase |-> "none", env |-> "development",
           exit |-> "none" ]

\* Task t goes on to the await point p with locals l and observations o.
Goto(t, p, l, o) ==
  /\ pc' = [pc EXCEPT ![t] = p]
  /\ loc' = [loc EXCEPT ![t] = l]
  /\ obs' = [obs EXCEPT ![t] = o]
  /\ UNCHANGED result

\* The call of task t ends with outcome r, locals l and observations o.
Done(t, r, l, o) ==
  /\ pc' = [pc EXCEPT ![t] = "done"]
  /\ result' = [result EXCEPT ![t] = r]
  /\ loc' = [loc EXCEPT ![t] = l]
  /\ obs' = [obs EXCEPT ![t] = o]

\* Neo4jDatabase.is_initialized
is_initialized == initialized /\ driver # NoDriver

NoInitGuard == FALSE

\* The guard of init's idempotent skip (line 251).
AlreadyInitialized == initialized /\ driver # NoDriver

Init ==
  /\ driver = NoDriver
  /\ config = None
  /\ initialized = FALSE
  /\ init_time = None
  /\ clock = 0
  /\ drivers = [d \in DriverIds |-> "none"]
  /\ closes = [d \in DriverIds |-> 0]
  /\ pc = [t \in Tasks |-> "idle"]
  /\ op = [t \in Tasks |-> "none"]
  /\ result = [t \in Tasks |-> "none"]
  /\ held = [t \in Tasks |-> NoDriver]
  /\ obs = [t \in Tasks |-> NoObs]
  /\ loc = [t \in Tasks |-> NoLoc]
  /\ sync_driver = NoDriver

\* The call of task t ends: it returns ("ok") or raises (the exception).
Finish(t, r) ==
  /\ pc' = [pc EXCEPT ![t] = "done"]
  /\ result' = [result EXCEPT ![t] = r]

\* The caller of task t goes on after the call.
Return(t) ==
  /\ pc[t] = "done"
  /\ pc' = [pc EXCEPT ![t] = "idle"]
  /\ op' = [op EXCEPT ![t] = "none"]
  /\ result' = [result EXCEPT ![t] = "none"]
  /\ held' = [held EXCEPT ![t] = NoDriver]
  /\ obs' = [obs EXCEPT ![t] = NoObs]
  /\ loc' = [loc EXCEPT ![t] = NoLoc]
  /\ UNCHANGED << manager, clock, drivers, closes, sync_driver >>

FreshDriver == CHOOSE d \in DriverIds :
  drivers[d] = "none" /\ \A e \in DriverIds : drivers[e] = "none" => d <= e

InitSucceedNoFlag(t) ==
  /\ initialized' = initialized
  /\ init_time' = Some(clock)
  /\ clock' = clock + 1
  /\ Finish(t, "ok")

\* init, marking the manager initialized (lines 276-277) and returning.
InitSucceed(t) ==
  /\ initialized' = TRUE
  /\ init_time' = Some(clock)
  /\ clock' = clock + 1
  /\ Finish(t, "ok")

\* Neo4jDatabase.init up to its first await (verify_connectivity).
\* arg is the config argument, env the configuration the environment gives.
InitCall(t, arg, env, made) ==
  /\ pc[t] = "idle"
  /\ op' = [op EXCEPT ![t] = "init"]
  /\ UNCHANGED scope
  /\ IF AlreadyInitialized
       THEN /\ Finish(t, "ok")
            /\ obs' = [obs EXCEPT ![t].warnings = 1]
            /\ UNCHANGED << manager, clock, drivers, closes, held >>
       ELSE LET cfg == IF arg # None THEN arg[1] ELSE env IN
            /\ config' = Some(cfg)
            /\ IF Validate(cfg) # "ok"
                 THEN /\ Finish(t, Validate(cfg))
                      /\ UNCHANGED << driver, initialized, init_time, clock,
                                      drivers, closes, held, obs >>
                 ELSE IF ~ made
                   THEN /\ Finish(t, "ConfigurationError")
                        /\ UNCHANGED << driver, initialized, init_time, clock,
                                        drivers, closes, held, obs >>
                   ELSE /\ \E d \in DriverIds : drivers[d] = "none"
                        /\ driver' = FreshDriver
                        /\ drivers' = [drivers EXCEPT ![FreshDriver] = "open"]
                        /\ held' = [held EXCEPT ![t] = FreshDriver]
                        /\ obs' = [obs EXCEPT ![t].created = 1, ![t].probes = 1]
                        /\ pc' = [pc EXCEPT ![t] = "init_verify"]
                        /\ UNCHANGED << initialized, init_time, clock, closes,
                                        result >>

\* verify_connectivity completes; on success init goes on into
\* _get_server_info, which reads _driver again.
InitVerify(t, out) ==
  /\ pc[t] = "init_verify"
  /\ IF out # "ok"
       THEN /\ Finish(t, out)
            /\ UNCHANGED << manager, clock >>
       ELSE IF driver = NoDriver
         THEN /\ InitSucceed(t)
              /\ UNCHANGED << driver, config >>
         ELSE /\ pc' = [pc EXCEPT ![t] = "init_info"]
              /\ UNCHANGED << manager, clock, result >>
  /\ UNCHANGED << drivers, closes, op, held, obs, scope >>

\* The server-info query of _get_server_info completes: every Exception is
\* swallowed there, a cancellation goes through.
InitInfo(t, out) ==
  /\ pc[t] = "init_info"
  /\ IF out = "ok" \/ IsInstance(out, "Exception")
       THEN /\ InitSucceed(t)
            /\ UNCHANGED << driver, config >>
       ELSE /\ Finish(t, out)
            /\ UNCHANGED << manager, clock >>
  /\ UNCHANGED << drivers, closes, op, held, obs, scope >>

\* Neo4jDatabase.close up to its await of driver.close().
CloseCall(t) ==
  /\ pc[t] = "idle"
  /\ op' = [op EXCEPT ![t] = "close"]
  /\ IF driver # NoDriver
       THEN /\ held' = [held EXCEPT ![t] = driver]
            /\ closes' = [closes EXCEPT ![driver] = @ + 1]
            /\ pc' = [pc EXCEPT ![t] = "close_wait"]
            /\ UNCHANGED << result, obs >>
       ELSE /\ Finish(t, "ok")
            /\ obs' = [obs EXCEPT ![t].warnings = 1]
            /\ UNCHANGED << held, closes >>
  /\ UNCHANGED << manager, clock, drivers, scope >>

CloseDoneKeepsDriver(t) ==
  /\ pc[t] = "close_wait"
  /\ drivers' = [drivers EXCEPT ![held[t]] = "closed"]
  /\ initialized' = FALSE
  /\ Finish(t, "ok")
  /\ UNCHANGED << driver, config, init_time, clock, closes, op, held, obs,
                  scope >>

\* driver.close() has completed: the rest of close.
CloseDone(t) ==
  /\ pc[t] = "close_wait"
  /\ drivers' = [drivers EXCEPT ![held[t]] = "closed"]
  /\ driver' = NoDriver
  /\ initialized' = FALSE
  /\ Finish(t, "ok")
  /\ UNCHANGED << config, init_time, clock, closes, op, held, obs, scope >>

ConfigArgs == {None} \cup {Some(c) : c \in Configs}
\* The inputs of an init call: the config argument, the environment's
\* configuration (read only when the argument is None) and whether
\* AsyncGraphDatabase.driver returns a driver.
InitInputs ==
  { i \in ConfigArgs \X EnvConfigs \X BOOLEAN :
      i[1] # None => i[2] = DefaultConfig }
VerifyOutcomes == {"ok", "AuthError", "ServiceUnavailable", "Neo4jError",
                   "CancelledError"}
InfoOutcomes == {"ok", "ClientError", "ServiceUnavailable", "CancelledError"}

Lifecycle(t) ==
  \/ \E i \in InitInputs : InitCall(t, i[1], i[2], i[3])
  \/ \E out \in VerifyOutcomes : InitVerify(t, out)
  \/ \E out \in InfoOutcomes : InitInfo(t, out)
  \/ CloseCall(t)
  \/ CloseDone(t)
  \/ Return(t)


-----------------------------------------------------------------------------
\* Scoped sessions.

\* Neo4jDatabase.get_driver: TRUE when it returns the driver, FALSE when it
\* raises RuntimeError (line 342).
DriverOnlyCheck == driver # NoDriver

GetDriverOk == ~ (driver = NoDriver \/ ~ initialized)

ClosesOnSuccessOnly(out) == out = "ok"

\* The try/finally of the session scopes: session.close() runs for every
\* outcome of the body.
ClosesOnExit(out) == TRUE

\* The operations that are one session scope around a body: the scope
\* itself, the FastAPI dependency, and the two managed-transaction helpers,
\* whose body is session.execute_read / execute_write.
ManagedOps == {"run_read_transaction", "run_write_transaction"}
SessionOps == {"session", "get_db_session"} \cup ManagedOps

\* Neo4jDatabase.session up to its yield (lines 387-392).
SessionEnter(t, o) ==
  /\ pc[t] = "idle"
  /\ op' = [op EXCEPT ![t] = o]
  /\ IF ~ GetDriverOk
       THEN /\ Finish(t, "RuntimeError")
            /\ UNCHANGED << held, obs, loc >>
       ELSE /\ held' = [held EXCEPT ![t] = driver]
            /\ loc' = [loc EXCEPT ![t].sess = "open"]
            /\ obs' = [obs EXCEPT ![t].sessions = @ + 1,
                                  ![t].queries =
                                     IF o \in ManagedOps THEN @ + 1 ELSE @]
            /\ pc' = [pc EXCEPT ![t] = "sess_body"]
            /\ UNCHANGED result
  /\ UNCHANGED << manager, clock, drivers, closes, sync_driver >>

\* The body of the scope ends with outcome out; the finally clause calls
\* session.close() (lines 393-394).
SessionBody(t, out) ==
  /\ pc[t] = "sess_body"
  /\ IF ClosesOnExit(out)
       THEN /\ loc' = [loc EXCEPT ![t].err = out]
            /\ obs' = [obs EXCEPT ![t].sclosed = @ + 1]
            /\ pc' = [pc EXCEPT ![t] = "sess_close"]
            /\ UNCHANGED result
       ELSE /\ Finish(t, out)
            /\ UNCHANGED << loc, obs >>
  /\ UNCHANGED << manager, clock, drivers, closes, op, held, sync_driver >>

\* session.close() completes; an exception it raises replaces the pending one.
SessionClosed(t, cout) ==
  /\ pc[t] = "sess_close"
  /\ loc' = [loc EXCEPT ![t].sess = "closed"]
  /\ Finish(t, IF cout = "ok" THEN loc[t].err ELSE cout)
  /\ UNCHANGED << manager, clock, drivers, closes, op, held, obs, sync_driver >>

BodyOutcomes == {"ok", "ValueError", "ServiceUnavailable", "CancelledError"}
CloseOutcomes == {"ok", "ServiceUnavailable"}

Sessions(t, ops) ==
  \/ \E o \in ops : SessionEnter(t, o)
  \/ \E out \in BodyOutcomes : SessionBody(t, out)
  \/ \E cout \in CloseOutcomes : SessionClosed(t, cout)

-----------------------------------------------------------------------------
\* Scoped transactions (Neo4jDatabase.transaction) and run_transaction.

\* The clause of transaction() that an exception e raised in its try block
\* reaches: except Exception (rollback, re-raise), else only finally.
Handler(e) == IF IsInstance(e, "Exception") THEN "rollback" ELSE "finally"

AfterBodyCommitAlways(out) == "commit"

\* What transaction() does when its body has ended with outcome out.
AfterBody(out) == IF out = "ok" THEN "commit" ELSE Handler(out)

NeverTxClose(txs) == FALSE

\* The finally clause of transaction(): tx.closed() is False.
NeedsTxClose(txs) == txs = "open"

\* The finally clause of transaction() with the transaction in state txs and
\* outcome e propagating: tx.close() if the transaction is not closed, then
\* the finally clause of the session scope.
TxFinally(t, e, txs, l, o) ==
  IF NeedsTxClose(txs)
    THEN Goto(t, "tx_close", [l EXCEPT !.err = e, !.tx = txs],
              [o EXCEPT !.txcloses = @ + 1])
    ELSE Goto(t, "sess_close", [l EXCEPT !.err = e, !.tx = txs],
              [o EXCEPT !.sclosed = @ + 1])

\* An exception e raised in the try block of transaction().
TxHandle(t, e, txs, l, o) ==
  IF Handler(e) = "rollback"
    THEN Goto(t, "tx_rollback", [l EXCEPT !.err = e, !.tx = txs],
              [o EXCEPT !.rollbacks = @ + 1])
    ELSE TxFinally(t, e, txs, l, o)

\* The body of the transaction scope has ended with outcome out.
TxAfterBody(t, out, l, o) ==
  IF AfterBody(out) = "commit"
    THEN Goto(t, "tx_commit", [l EXCEPT !.body = out],
              [o EXCEPT !.commits = @ + 1])
    ELSE TxHandle(t, out, l.tx, [l EXCEPT !.body = out], o)

\* run_transaction with a batch of n statements, up to the await of
\* session.begin_transaction().
TxEnter(t, n) ==
  /\ pc[t] = "idle"
  /\ op' = [op EXCEPT ![t] = "run_transaction"]
  /\ IF ~ GetDriverOk
       THEN /\ Finish(t, "RuntimeError")
            /\ UNCHANGED << held, obs, loc >>
       ELSE /\ held' = [held EXCEPT ![t] = driver]
            /\ Goto(t, "tx_begin", [loc[t] EXCEPT !.sess = "open", !.n = n],
                    [obs[t] EXCEPT !.sessions = @ + 1])
  /\ UNCHANGED << manager, clock, drivers, closes, sync_driver >>

\* begin_transaction completes; the body starts with its first statement.
TxBegin(t, out) ==
  /\ pc[t] = "tx_begin"
  /\ IF out = "ok"
       THEN IF loc[t].n = 0
              THEN TxAfterBody(t, "ok", [loc[t] EXCEPT !.tx = "open"], obs[t])
              ELSE Goto(t, "tx_stmt", [loc[t] EXCEPT !.tx = "open"],
                        [obs[t] EXCEPT !.queries = @ + 1])
       ELSE Goto(t, "sess_close", [loc[t] EXCEPT !.err = out],
                 [obs[t] EXCEPT !.sclosed = @ + 1])
  /\ UNCHANGED << manager, clock, drivers, closes, op, held, sync_driver >>

\* tx.run / result.consume of the next statement completes.
TxStmt(t, out) ==
  /\ pc[t] = "tx_stmt"
  /\ IF out = "ok"
       THEN LET l == [loc[t] EXCEPT !.k = @ + 1] IN
            IF l.k = l.n
              THEN TxAfterBody(t, "ok", l, obs[t])
              ELSE Goto(t, "tx_stmt", l, [obs[t] EXCEPT !.queries = @ + 1])
       ELSE TxAfterBody(t, out, [loc[t] EXCEPT !.failedAt = loc[t].k + 1],
                        obs[t])
  /\ UNCHANGED << manager, clock, drivers, closes, op, held, sync_driver >>

\* tx.commit() completes. On success the effects of the statements that ran
\* become observable; on failure nothing is applied and the transaction is
\* left in state left.
TxCommit(t, out, left) ==
  /\ pc[t] = "tx_commit"
  /\ IF out = "ok"
       THEN TxFinally(t, loc[t].err, "closed", loc[t],
                      [obs[t] EXCEPT !.effects = 1..loc[t].k])
       ELSE TxHandle(t, out, left, loc[t], obs[t])
  /\ UNCHANGED << manager, clock, drivers, closes, op, held, sync_driver >>

\* tx.rollback() completes: on success the pending exception is re-raised,
\* on failure its own exception propagates.
TxRollback(t, out, left) ==
  /\ pc[t] = "tx_rollback"
  /\ IF out = "ok"
       THEN TxFinally(t, loc[t].err, "closed", loc[t], obs[t])
       ELSE TxFinally(t, out, left, loc[t], obs[t])
  /\ UNCHANGED << manager, clock, drivers, closes, op, held, sync_driver >>

\* tx.close() completes (it leaves the transaction closed also when it
\* raises); then the finally clause of the session scope.
TxClose(t, out) ==
  /\ pc[t] = "tx_close"
  /\ Goto(t, "sess_close",
          [loc[t] EXCEPT !.tx = "closed",
                         !.err = IF out = "ok" THEN @ ELSE out],
          [obs[t] EXCEPT !.sclosed = @ + 1])
  /\ UNCHANGED << manager, clock, drivers, closes, op, held, sync_driver >>

TxOutcomes == {"ok", "ServiceUnavailable", "CancelledError"}
StmtOutcomes == {"ok", "CypherSyntaxError", "TransientError", "CancelledError"}
TxStates == {"open", "closed"}

Transactions(t) ==
  \/ \E n \in 0..MaxStmts : TxEnter(t, n)
  \/ \E out \in TxOutcomes : TxBegin(t, out)
  \/ \E out \in StmtOutcomes : TxStmt(t, out)
  \/ \E out \in TxOutcomes, left \in TxStates : TxCommit(t, out, left)
  \/ \E out \in TxOutcomes, left \in TxStates : TxRollback(t, out, left)
  \/ \E out \in TxOutcomes : TxClose(t, out)

-----------------------------------------------------------------------------
\* The retry wrapper (with_retry) and the helpers it wraps.

RetryableWithClientErrors ==
  {"ServiceUnavailable", "SessionExpired", "TransientError", "Neo4jError"}

\* retryable_exceptions (lines 148-152).
RetryableExceptions == {"ServiceUnavailable", "SessionExpired", "TransientError"}

IsRetryableNever(e) == FALSE

\* except retryable_exceptions as e (line 176).
IsRetryable(e) == \E c \in RetryableExceptions : IsInstance(e, c)

WrappedOps == {"run_query", "run_query_single", "run_write"}

ExhaustedEarly(l) == l.attempt = max_retries - 1

\* if attempt == max_retries (line 179): the retries are used up.
Exhausted(l) == l.attempt = max_retries

RetryLogsSilent(o) == [o EXCEPT !.sleeps = @ + 1]

\* A retry: logger.warning (line 194), then asyncio.sleep (line 198).
RetryLogs(o) == [o EXCEPT !.warnings = @ + 1, !.sleeps = @ + 1]

\* The wrapped function has returned ("ok") or raised e: lines 174-198.
AttemptEnds(t, e, l, o) ==
  IF e = "ok" THEN Done(t, "ok", l, o)
  ELSE IF ~ IsRetryable(e) THEN Done(t, e, l, o)
  ELSE IF Exhausted(l)
    THEN Done(t, e, l, [o EXCEPT !.errors = @ + 1])
    ELSE Goto(t, "h_sleep", l, RetryLogs(o))

\* The wrapper invokes the wrapped function (line 174), which runs up to its
\* first await: the session scope is entered and session.run is awaited.
StartAttempt(t, l, o) ==
  IF ~ GetDriverOk
    THEN /\ AttemptEnds(t, "RuntimeError", [l EXCEPT !.raised = "RuntimeError"],
                        [o EXCEPT !.calls = @ + 1])
         /\ UNCHANGED held
    ELSE /\ held' = [held EXCEPT ![t] = driver]
         /\ Goto(t, "h_run", [l EXCEPT !.sess = "open", !.err = "ok"],
                 [o EXCEPT !.calls = @ + 1, !.sessions = @ + 1,
                           !.queries = @ + 1])

\* A call of a retry-wrapped helper.
HelperCall(t, h) ==
  /\ pc[t] = "idle"
  /\ op' = [op EXCEPT ![t] = h]
  /\ StartAttempt(t, loc[t], obs[t])
  /\ UNCHANGED << manager, clock, drivers, closes, sync_driver >>

HelperRunLeaks(t, out) ==
  /\ pc[t] = "h_run"
  /\ IF out = "ok"
       THEN Goto(t, "h_fetch", loc[t], obs[t])
       ELSE AttemptEnds(t, out, [loc[t] EXCEPT !.err = out, !.raised = out],
                        obs[t])
  /\ UNCHANGED << manager, clock, drivers, closes, op, held, sync_driver >>

\* session.run completes; on success the result is fetched / consumed, on
\* failure the session scope is left.
HelperRun(t, out) ==
  /\ pc[t] = "h_run"
  /\ IF out = "ok"
       THEN Goto(t, "h_fetch", loc[t], obs[t])
       ELSE Goto(t, "h_close", [loc[t] EXCEPT !.err = out],
                 [obs[t] EXCEPT !.sclosed = @ + 1])
  /\ UNCHANGED << manager, clock, drivers, closes, op, held, sync_driver >>

\* The connection was lost (ServiceUnavailable, SessionExpired): the server
\* may have executed what was sent.
ConnectionLost(e) == e # "ok" /\ IsInstance(e, "DriverError")

\* result.fetch / single / consume completes; the session scope is left.
\* The auto-committed statement of run_write has taken effect when its
\* summary arrives, and when the connection is lost while waiting for it
\* the server has committed it (took) or not.
HelperFetch(t, out, took) ==
  /\ pc[t] = "h_fetch"
  /\ ConnectionLost(out) \/ ~ took
  /\ Goto(t, "h_close", [loc[t] EXCEPT !.err = out],
          [obs[t] EXCEPT !.sclosed = @ + 1,
                         !.applied = IF op[t] = "run_write"
                                          /\ (out = "ok" \/ took)
                                       THEN @ + 1 ELSE @])
  /\ UNCHANGED << manager, clock, drivers, closes, op, held, sync_driver >>

\* session.close() completes: the wrapped function returns or raises, and
\* the wrapper decides.
HelperClosed(t, cout) ==
  /\ pc[t] = "h_close"
  /\ LET e == IF cout = "ok" THEN loc[t].err ELSE cout IN
     AttemptEnds(t, e, [loc[t] EXCEPT !.sess = "closed", !.raised = e], obs[t])
  /\ UNCHANGED << manager, clock, drivers, closes, op, held, sync_driver >>

\* asyncio.sleep(delay) completes, and the next attempt starts; or the
\* caller is cancelled while it sleeps.
HelperWake(t, out) ==
  /\ pc[t] = "h_sleep"
  /\ IF out = "ok"
       THEN StartAttempt(t, [loc[t] EXCEPT !.attempt = @ + 1], obs[t])
       ELSE /\ Done(t, out, loc[t], obs[t])
            /\ UNCHANGED held
  /\ UNCHANGED << manager, clock, drivers, closes, op, sync_driver >>

RunOutcomes == {"ok", "ServiceUnavailable", "SessionExpired", "AuthError",
                "CypherSyntaxError", "CancelledError"}
FetchOutcomes == {"ok", "TransientError", "DatabaseUnavailable", "ClientError",
                  "ServiceUnavailable"}
SleepOutcomes == {"ok", "CancelledError"}

Helpers(t) ==
  \/ \E h \in WrappedOps : HelperCall(t, h)
  \/ \E out \in RunOutcomes : HelperRun(t, out)
  \/ \E out \in FetchOutcomes, took \in BOOLEAN : HelperFetch(t, out, took)
  \/ \E cout \in CloseOutcomes : HelperClosed(t, cout)
  \/ \E out \in SleepOutcomes : HelperWake(t, out)

-----------------------------------------------------------------------------
\* with_retry around any coroutine function, with any policy.

Min(a, b) == IF a <= b THEN a ELSE b

\* b ** i
RECURSIVE Pow(_, _)
Pow(b, i) == IF i = 0 THEN 1 ELSE b * Pow(b, i - 1)

BackoffDelayNoCap(p, attempt) ==
  p.base_delay * Pow(p.exponential_base, attempt)

\* The delay before jitter (lines 186-189), in milliseconds.
BackoffDelay(p, attempt) ==
  Min(p.base_delay * Pow(p.exponential_base, attempt), p.max_delay)

\* random.random(), in thousandths: a value of [0, 1).
JitterSamples == {0, 500, 999}

\* delay *= (0.75 + random.random() * 0.5) (line 192): with the delay in
\* milliseconds and r in thousandths, the result in 1/2000 of a millisecond.
Jittered(delay, r) == delay * (1500 + r)

\* A call of a function decorated with with_retry under policy p: the
\* wrapper invokes the function (line 174).
WrapperCall(t, p) ==
  /\ pc[t] = "idle"
  /\ op' = [op EXCEPT ![t] = "with_retry"]
  /\ Goto(t, "w_try", [loc[t] EXCEPT !.policy = p],
          [obs[t] EXCEPT !.calls = @ + 1])
  /\ UNCHANGED << manager, clock, drivers, closes, held, sync_driver >>

\* The function returns ("ok") or raises out; r is the jitter drawn when
\* the wrapper retries (lines 174-198).
WrapperAttempt(t, out, r) ==
  /\ pc[t] = "w_try"
  /\ LET l == [loc[t] EXCEPT !.raised = out]
         p == loc[t].policy IN
     IF out = "ok" \/ ~ IsRetryable(out) THEN Done(t, out, l, obs[t])
     ELSE IF l.attempt = p.max_retries
       THEN Done(t, out, l, [obs[t] EXCEPT !.errors = @ + 1])
       ELSE Goto(t, "w_sleep",
                 [l EXCEPT !.delay = BackoffDelay(p, l.attempt),
                           !.slept = Jittered(BackoffDelay(p, l.attempt), r)],
                 RetryLogs(obs[t]))
  /\ UNCHANGED << manager, clock, drivers, closes, op, held, sync_driver >>

\* asyncio.sleep(delay) completes and the loop goes on to the next attempt,
\* or the caller is cancelled while it sleeps.
WrapperWake(t, out) ==
  /\ pc[t] = "w_sleep"
  /\ IF out = "ok"
       THEN Goto(t, "w_try", [loc[t] EXCEPT !.attempt = @ + 1, !.slept = 0],
                 [obs[t] EXCEPT !.calls = @ + 1])
       ELSE Done(t, out, loc[t], obs[t])
  /\ UNCHANGED << manager, clock, drivers, closes, op, held, sync_driver >>

FuncOutcomes == {"ok", "ServiceUnavailable", "TransientError", "ClientError"}

Wrapper(t) ==
  \/ \E p \in RetryPolicies : WrapperCall(t, p)
  \/ \E out \in FuncOutcomes, r \in JitterSamples : WrapperAttempt(t, out, r)
  \/ \E out \in SleepOutcomes : WrapperWake(t, out)

-----------------------------------------------------------------------------
\* The synchronous manager (Graph_final_project/app/database.py).

\* connect(): a new driver replaces _driver.
SyncConnectBody(t) ==
  /\ \E d \in DriverIds : drivers[d] = "none"
  /\ sync_driver' = FreshDriver
  /\ drivers' = [drivers EXCEPT ![FreshDriver] = "open"]
  /\ obs' = [obs EXCEPT ![t].created = 1]

\* Neo4jDatabase(): __init__ connects when no driver is held.
SyncConstruct(t) ==
  /\ pc[t] = "idle"
  /\ op' = [op EXCEPT ![t] = "sync_construct"]
  /\ IF sync_driver = NoDriver
       THEN SyncConnectBody(t)
       ELSE UNCHANGED << sync_driver, drivers, obs >>
  /\ Finish(t, "ok")
  /\ UNCHANGED << manager, clock, closes, held, loc >>

\* connect() called on the instance.
SyncConnect(t) ==
  /\ pc[t] = "idle"
  /\ op' = [op EXCEPT ![t] = "sync_connect"]
  /\ SyncConnectBody(t)
  /\ Finish(t, "ok")
  /\ UNCHANGED << manager, clock, closes, held, loc >>

\* close() of the synchronous manager.
SyncClose(t) ==
  /\ pc[t] = "idle"
  /\ op' = [op EXCEPT ![t] = "sync_close"]
  /\ IF sync_driver # NoDriver
       THEN /\ closes' = [closes EXCEPT ![sync_driver] = @ + 1]
            /\ drivers' = [drivers EXCEPT ![sync_driver] = "closed"]
            /\ sync_driver' = NoDriver
       ELSE UNCHANGED << closes, drivers, sync_driver >>
  /\ Finish(t, "ok")
  /\ UNCHANGED << manager, clock, held, obs, loc >>

\* get_session up to its yield.
SyncSessionEnter(t) ==
  /\ pc[t] = "idle"
  /\ op' = [op EXCEPT ![t] = "get_session"]
  /\ IF sync_driver = NoDriver
       THEN /\ Finish(t, "RuntimeError")
            /\ UNCHANGED << held, obs, loc >>
       ELSE /\ held' = [held EXCEPT ![t] = sync_driver]
            /\ loc' = [loc EXCEPT ![t].sess = "open"]
            /\ obs' = [obs EXCEPT ![t].sessions = @ + 1]
            /\ pc' = [pc EXCEPT ![t] = "sync_body"]
            /\ UNCHANGED result
  /\ UNCHANGED << manager, clock, drivers, closes, sync_driver >>

\* The body of get_session's scope ends; the finally clause closes the
\* session.
SyncSessionExit(t, out, cout) ==
  /\ pc[t] = "sync_body"
  /\ IF ClosesOnExit(out)
       THEN /\ loc' = [loc EXCEPT ![t].sess = "closed", ![t].err = out]
            /\ obs' = [obs EXCEPT ![t].sclosed = @ + 1]
            /\ Finish(t, IF cout = "ok" THEN out ELSE cout)
       ELSE /\ Finish(t, out)
            /\ UNCHANGED << loc, obs >>
  /\ UNCHANGED << manager, clock, drivers, closes, op, held, sync_driver >>

SyncBodyOutcomes == {"ok", "ValueError", "ServiceUnavailable"}

Sync(t) ==
  \/ SyncConstruct(t)
  \/ SyncConnect(t)
  \/ SyncClose(t)
  \/ SyncSessionEnter(t)
  \/ \E out \in SyncBodyOutcomes, cout \in CloseOutcomes :
       SyncSessionExit(t, out, cout)

-----------------------------------------------------------------------------
\* health_check.

HealthGuardDriverOnly == driver = NoDriver

\* if not Neo4jDatabase.is_initialized() (line 510)
HealthGuard == ~ is_initialized

UnhealthyDegraded(err) ==
  [NoResult EXCEPT !.status = "degraded", !.error = Some(err)]

\* The result of the early returns and of the except clauses.
Unhealthy(err) ==
  [NoResult EXCEPT !.status = "unhealthy", !.error = Some(err)]

\* Neo4jDatabase.get_uptime
get_uptime == IF init_time # None THEN Some(clock - init_time[1]) ELSE None

\* The result of the two healthy returns (lines 535-541 and 562-572).
Healthy(l, gds_available, gds_version) ==
  [NoResult EXCEPT !.status = "healthy", !.neo4j_connected = TRUE,
                   !.neo4j_version = l.server,
                   !.gds_available = gds_available,
                   !.gds_version = gds_version,
                   !.latency_ms = Some(l.latency),
                   !.uptime_seconds = get_uptime]

LiveOkAny(rec) == rec # None

\* not (not record or record["healthcheck"] != 1) (line 525)
LiveOk(rec) == rec # None /\ rec[1] = 1

GdsSwallowsNothing(e) == FALSE

\* except (ClientError, Neo4jError): pass (line 559)
GdsSwallows(e) == IsInstance(e, "ClientError") \/ IsInstance(e, "Neo4jError")

HealthCatchesNamed(e) ==
  IsInstance(e, "ServiceUnavailable") \/ IsInstance(e, "AuthError")

\* The except clauses of health_check (lines 574-592) catch e.
HealthCatches(e) == IsInstance(e, "Exception")

\* The error field the except clauses build from e; the class name stands
\* for str(e).
ErrorText(e) ==
  IF IsInstance(e, "ServiceUnavailable") THEN "Service unavailable: " \o e
  ELSE IF IsInstance(e, "AuthError") THEN "Authentication failed: " \o e
  ELSE e

RespondAlwaysOk(r, ret) ==
  [ status |-> IF r = "ok" /\ ret.neo4j_connected THEN "healthy"
               ELSE "unhealthy",
    code |-> 200,
    neo4j |-> Some(r = "ok" /\ ret.neo4j_connected),
    error |-> IF r = "ok" THEN ret.error ELSE Some(r) ]

\* health_check_endpoint with the database module available (main.py,
\* lines 518-546): the response for health_check having returned ret
\* (r = "ok") or raised the Exception r.
Respond(r, ret) ==
  IF r = "ok" /\ ret.neo4j_connected
    THEN [ status |-> "healthy", code |-> 200, neo4j |-> Some(TRUE),
           error |-> None ]
  ELSE IF r = "ok"
    THEN [ status |-> "unhealthy", code |-> 503, neo4j |-> Some(FALSE),
           error |-> ret.error ]
    ELSE [ status |-> "unhealthy", code |-> 503, neo4j |-> Some(FALSE),
           error |-> Some(r) ]

\* health_check returns l.ret (r = "ok") or raises r, to its caller or to
\* the /health endpoint, which builds its response and returns it (an
\* exception that is not an Exception goes through the endpoint too).
HealthReturn(t, r, l, o) ==
  IF l.endpoint /\ (r = "ok" \/ IsInstance(r, "Exception"))
    THEN Done(t, "ok", [l EXCEPT !.resp = Respond(r, l.ret)], o)
    ELSE Done(t, r, l, o)

\* Exception e leaves the try block of health_check.
HealthRaise(t, e, l, o) ==
  IF HealthCatches(e)
    THEN HealthReturn(t, "ok",
                      [l EXCEPT !.err = e, !.ret = Unhealthy(ErrorText(e))], o)
    ELSE HealthReturn(t, e, [l EXCEPT !.err = e], o)

\* The session scope of health_check is left, returning ret or with
\* exception e propagating from step: session.close() is awaited.
HealthLeave(t, e, step, ret, l, o) ==
  Goto(t, "hc_close", [l EXCEPT !.err = e, !.step = step, !.ret = ret],
       [o EXCEPT !.sclosed = @ + 1])

\* health_check(detailed) up to its first await: the guard, then
\* driver.session(), which returns a session or raises sopen, and the
\* liveness query.
HealthBegin(t, detailed, sopen, l0) ==
  LET l == [l0 EXCEPT !.detailed = detailed] IN
  IF HealthGuard
    THEN /\ HealthReturn(t, "ok",
           [l EXCEPT !.ret = Unhealthy("Neo4j driver not initialized")],
           obs[t])
         /\ UNCHANGED held
    ELSE IF sopen # "ok"
      THEN /\ HealthRaise(t, sopen, [l EXCEPT !.step = "open"], obs[t])
           /\ UNCHANGED held
      ELSE /\ held' = [held EXCEPT ![t] = driver]
           /\ Goto(t, "hc_live", [l EXCEPT !.sess = "open"],
                   [obs[t] EXCEPT !.sessions = @ + 1, !.queries = @ + 1])

\* A call of health_check(detailed).
HealthCall(t, detailed, sopen) ==
  /\ pc[t] = "idle"
  /\ op' = [op EXCEPT ![t] = "health_check"]
  /\ HealthBegin(t, detailed, sopen, loc[t])
  /\ UNCHANGED << manager, clock, drivers, closes, sync_driver >>

\* A request of GET /health in a process where the import of the database
\* module succeeded (available) or failed: health_check_endpoint (main.py)
\* up to its await in health_check(detailed=True), or to its response.
EndpointCall(t, available, sopen) ==
  /\ pc[t] = "idle"
  /\ op' = [op EXCEPT ![t] = "health_endpoint"]
  /\ LET l == [loc[t] EXCEPT !.endpoint = TRUE, !.available = available] IN
     IF available
       THEN HealthBegin(t, TRUE, sopen, l)
       ELSE /\ Done(t, "ok",
                    [l EXCEPT !.resp = [NoResp EXCEPT !.status = "degraded",
                                                      !.code = 200]],
                    obs[t])
            /\ UNCHANGED held
  /\ UNCHANGED << manager, clock, drivers, closes, sync_driver >>

\* The liveness query (session.run, result.single) completes: it raises
\* out, or gives record rec after lat milliseconds.
HealthLive(t, out, rec, lat) ==
  /\ pc[t] = "hc_live"
  /\ IF out # "ok"
       THEN HealthLeave(t, out, "live", NoResult,
                        [loc[t] EXCEPT !.live = "raised"], obs[t])
       ELSE LET l == [loc[t] EXCEPT
                        !.live = IF rec = Some(1) THEN "one" ELSE "other",
                        !.latency = lat] IN
            IF ~ LiveOk(rec)
              THEN HealthLeave(t, "ok", "none",
                     Unhealthy("Health check query returned unexpected result"),
                     l, obs[t])
            ELSE IF ~ l.detailed
              THEN HealthLeave(t, "ok", "none", Healthy(l, None, None), l,
                               obs[t])
              ELSE Goto(t, "hc_info", l, [obs[t] EXCEPT !.queries = @ + 1])
  /\ UNCHANGED << manager, clock, drivers, closes, op, held, sync_driver >>

\* The server-identity query completes; then the extension probe is sent.
HealthInfo(t, out, rec) ==
  /\ pc[t] = "hc_info"
  /\ IF out # "ok"
       THEN HealthLeave(t, out, "info", NoResult, loc[t], obs[t])
       ELSE Goto(t, "hc_gds", [loc[t] EXCEPT !.server = rec],
                 [obs[t] EXCEPT !.queries = @ + 1])
  /\ UNCHANGED << manager, clock, drivers, closes, op, held, sync_driver >>

\* The extension probe (RETURN gds.version()) completes.
HealthGds(t, out, rec) ==
  /\ pc[t] = "hc_gds"
  /\ IF out = "ok"
       THEN LET l == [loc[t] EXCEPT
                        !.gds = IF rec # None THEN "present" ELSE "empty"] IN
            HealthLeave(t, "ok", "none", Healthy(l, Some(rec # None), rec),
                        l, obs[t])
       ELSE LET l == [loc[t] EXCEPT !.gds = out] IN
            IF GdsSwallows(out)
              THEN HealthLeave(t, "ok", "none", Healthy(l, Some(FALSE), None),
                               l, obs[t])
              ELSE HealthLeave(t, out, "gds", NoResult, l, obs[t])
  /\ UNCHANGED << manager, clock, drivers, closes, op, held, sync_driver >>

\* session.close() completes: health_check returns its result, or the
\* propagating exception (that of close, if it raised) reaches the except
\* clauses.
HealthClosed(t, cout) ==
  /\ pc[t] = "hc_close"
  /\ LET l == [loc[t] EXCEPT !.sess = "closed"] IN
     IF cout # "ok"
       THEN HealthRaise(t, cout, [l EXCEPT !.step = "close"], obs[t])
     ELSE IF l.err # "ok" THEN HealthRaise(t, l.err, l, obs[t])
     ELSE HealthReturn(t, "ok", l, obs[t])
  /\ UNCHANGED << manager, clock, drivers, closes, op, held, sync_driver >>

SessionOpenOutcomes == {"ok", "DriverError"}
LiveRecords == {None, Some(1), Some(0)}
Latencies == {0, 12}
\* The liveness query raises, or gives a record after some time.
LiveOutcomes ==
  { << "ok", rec, lat >> : rec \in LiveRecords, lat \in Latencies }
    \cup { << e, None, 0 >> :
             e \in {"ServiceUnavailable", "AuthError", "CancelledError"} }
InfoRecords == {None, Some("5.13.0")}
HealthInfoOutcomes ==
  { << "ok", rec >> : rec \in InfoRecords }
    \cup { << e, None >> : e \in {"ServiceUnavailable", "ClientError"} }
GdsRecords == {None, Some("2.5.0")}
GdsOutcomes ==
  { << "ok", rec >> : rec \in GdsRecords }
    \cup { << e, None >> :
             e \in {"ClientError", "ServiceUnavailable", "CancelledError"} }

Health(t) ==
  \/ \E detailed \in BOOLEAN, sopen \in SessionOpenOutcomes :
       HealthCall(t, detailed, sopen)
  \/ \E available \in BOOLEAN, sopen \in SessionOpenOutcomes :
       EndpointCall(t, available, sopen)
  \/ \E i \in LiveOutcomes : HealthLive(t, i[1], i[2], i[3])
  \/ \E i \in HealthInfoOutcomes : HealthInfo(t, i[1], i[2])
  \/ \E i \in GdsOutcomes : HealthGds(t, i[1], i[2])
  \/ \E cout \in CloseOutcomes : HealthClosed(t, cout)

-----------------------------------------------------------------------------
\* The lifespan scopes: lifespan (main.py) and neo4j_lifespan (database.py).

Environments == {"development", "staging", "production"}

\* What may be thrown into a lifespan scope at its yield while the
\* application runs, besides the normal shutdown ("ok").
ShutdownKinds == {"ok", "RuntimeError", "CancelledError"}

AbortsNever(env) == FALSE

\* if API_ENV == "production": sys.exit(1) (main.py, lines 202-204)
AbortsStartup(env) == env = "production"

\* The caller of task t goes on after a call, its lifespan scope going to
\* phase ph, left with outcome ex if it is left.
LifespanGoes(t, ph, ex) ==
  /\ pc' = [pc EXCEPT ![t] = "idle"]
  /\ op' = [op EXCEPT ![t] = "none"]
  /\ result' = [result EXCEPT ![t] = "none"]
  /\ held' = [held EXCEPT ![t] = NoDriver]
  /\ obs' = [obs EXCEPT ![t] = NoObs]
  /\ loc' = [loc EXCEPT ![t].phase = ph, ![t].exit = ex]
  /\ UNCHANGED << manager, clock, drivers, closes, sync_driver >>

\* The scope is entered, up to its call of init(); without the database
\* module lifespan goes on to its yield.
LifespanEnter(t, which, env, available) ==
  /\ pc[t] = "idle" /\ loc[t].phase = "none"
  /\ which = "neo4j" => (available /\ env = "development")
  /\ loc' = [loc EXCEPT ![t].lifespan = which, ![t].env = env,
                         ![t].available = available,
                         ![t].phase = IF available THEN "startup"
                                      ELSE "serving"]
  /\ UNCHANGED << manager, clock, drivers, closes, pc, op, result, held, obs,
                  sync_driver >>

\* await Neo4jDatabase.init() of the startup part.
LifespanInit(t, env_config, made) ==
  /\ loc[t].phase = "startup"
  /\ InitCall(t, None, env_config, made)

\* init() has returned or raised: neo4j_lifespan lets every exception go
\* through; lifespan catches an Exception and exits the process in
\* production, else goes on to its yield.
LifespanStarted(t) ==
  /\ loc[t].phase = "startup" /\ pc[t] = "done" /\ op[t] = "init"
  /\ IF result[t] = "ok" THEN LifespanGoes(t, "serving", "none")
     ELSE IF loc[t].lifespan = "main" /\ IsInstance(result[t], "Exception")
       THEN IF AbortsStartup(loc[t].env)
              THEN LifespanGoes(t, "left", "SystemExit")
              ELSE LifespanGoes(t, "serving", "none")
       ELSE LifespanGoes(t, "left", result[t])

\* An exception e is thrown into the scope at its yield: neither scope has
\* a try around the yield, so it leaves the scope at once. Or lifespan is
\* resumed for shutdown without the database module.
LifespanThrown(t, e) ==
  /\ loc[t].phase = "serving" /\ pc[t] = "idle"
  /\ IF e = "ok" THEN ~ loc[t].available ELSE TRUE
  /\ loc' = [loc EXCEPT ![t].phase = "left", ![t].exit = e]
  /\ UNCHANGED << manager, clock, drivers, closes, pc, op, result, held, obs,
                  sync_driver >>

\* The scope is resumed for shutdown: await Neo4jDatabase.close().
LifespanClose(t) ==
  /\ loc[t].phase = "serving" /\ loc[t].available
  /\ CloseCall(t)

\* close() has returned: the scope is left.
LifespanLeft(t) ==
  /\ loc[t].phase = "serving" /\ pc[t] = "done" /\ op[t] = "close"
  /\ LifespanGoes(t, "left", "ok")

Lifespan(t) ==
  \/ \E which \in {"main", "neo4j"}, env \in Environments,
         available \in BOOLEAN : LifespanEnter(t, which, env, available)
  \/ \E c \in EnvConfigs, made \in BOOLEAN : LifespanInit(t, c, made)
  \/ \E out \in VerifyOutcomes : InitVerify(t, out)
  \/ \E out \in InfoOutcomes : InitInfo(t, out)
  \/ LifespanStarted(t)
  \/ \E e \in ShutdownKinds : LifespanThrown(t, e)
  \/ LifespanClose(t)
  \/ CloseDone(t)
  \/ LifespanLeft(t)

-----------------------------------------------------------------------------
\* Spec: the callers run init, close and session scopes concurrently.
Next == \E t \in Tasks : Lifecycle(t) \/ Sessions(t, {"session"})

Spec == Init /\ [][Next]_vars

\* SpecOps: one caller runs every operation of both managers, one after
\* the other.
NextOps ==
  \/ Lifecycle(MainTask)
  \/ Sessions(MainTask, SessionOps)
  \/ Transactions(MainTask)
  \/ Helpers(MainTask)
  \/ Sync(MainTask)
  \/ Health(MainTask)

SpecOps == Init /\ [][NextOps]_vars

\* SpecSeq: one caller makes init and close calls, one after the other.
NextSeq == Lifecycle(MainTask)

SpecSeq == Init /\ [][NextSeq]_vars

\* SpecApp: the application runs one lifespan scope.
NextApp == Lifespan(MainTask)

SpecApp == Init /\ [][NextApp]_vars

\* SpecBackoff: one caller calls functions decorated with with_retry, under
\* every policy.
NextBackoff == Wrapper(MainTask) \/ Return(MainTask)

SpecBackoff == Init /\ [][NextBackoff]_vars

-----------------------------------------------------------------------------
\* Claims.

\* Task t starts a call of operation o in this step.
Calls(t, o) == pc[t] = "idle" /\ pc'[t] # "idle" /\ op'[t] = o

\* The configuration an init call with inputs i works with.
EffectiveConfig(i) == IF i[1] # None THEN i[1][1] ELSE i[2]

\* C1: an init() call made while the manager is Initialized returns at once,
\* creates no driver, issues no probe, and leaves the held driver, the stored
\* configuration and the init timestamp as they were, whatever config it is
\* given.
C1_InitIdempotent ==
  [][\A t \in Tasks :
       (Calls(t, "init") /\ is_initialized)
         => /\ pc'[t] = "done" /\ result'[t] = "ok"
            /\ obs'[t].created = 0 /\ obs'[t].probes = 0
            /\ obs'[t].warnings = 1
            /\ drivers' = drivers
            /\ driver' = driver /\ config' = config
            /\ init_time' = init_time /\ initialized' = initialized]_vars

\* An init call has been skipped on an Initialized manager.
C1_Witness ==
  \E t \in Tasks :
    /\ pc[t] = "done" /\ op[t] = "init" /\ result[t] = "ok"
    /\ obs[t].warnings = 1 /\ obs[t].created = 0
    /\ is_initialized

\* C2: when init() raises after it created the driver (the connectivity
\* probe failed), the manager holds no driver and is not Initialized at the
\* moment the exception reaches the caller.
C2_NoHalfInit ==
  [][\A t \in Tasks :
       (pc[t] = "init_verify" /\ pc'[t] = "done" /\ result'[t] # "ok")
         => (driver' = NoDriver /\ ~ is_initialized')]_vars

\* C3 as stated: every init() call with an invalid configuration fails with
\* the configuration error, creates no driver, issues no probe and leaves the
\* manager not Initialized.
C3_Original ==
  [][\A t \in Tasks : \A i \in InitInputs :
       (InitCall(t, i[1], i[2], i[3]) /\ Validate(EffectiveConfig(i)) # "ok")
         => /\ result'[t] = "ValueError"
            /\ obs'[t].created = 0 /\ obs'[t].probes = 0
            /\ ~ is_initialized']_vars

\* C3 amended: an init() call made while the manager is not Initialized, with
\* a configuration whose password is empty or whose URI has none of the four
\* schemes, raises ValueError before any driver is created or probed, and the
\* manager is not Initialized afterwards.
C3_ValidateFirst ==
  [][\A t \in Tasks : \A i \in InitInputs :
       (/\ InitCall(t, i[1], i[2], i[3])
        /\ ~ is_initialized
        /\ \/ Len(EffectiveConfig(i).password) = 0
           \/ \A p \in Schemes : ~ StartsWith(EffectiveConfig(i).uri, p))
         => /\ pc'[t] = "done" /\ result'[t] = "ValueError"
            /\ obs'[t].created = 0 /\ obs'[t].probes = 0
            /\ drivers' = drivers /\ driver' = driver
            /\ ~ is_initialized']_vars

\* An init call on a manager that is not Initialized has failed validation
\* on the URI scheme alone: no driver was made, and a driver left by an
\* earlier init is still the one held.
C3_Witness ==
  \E t \in Tasks :
    /\ pc[t] = "done" /\ op[t] = "init" /\ result[t] = "ValueError"
    /\ obs[t].created = 0 /\ obs[t].probes = 0
    /\ ~ is_initialized
    /\ config # None /\ Len(config[1].password) > 0
    /\ \A p \in Schemes : ~ StartsWith(config[1].uri, p)

AcquireOps == SessionOps \cup WrappedOps \cup {"run_transaction"}

\* C5: session acquisition and every query helper, called while the manager
\* is not Initialized, fails at once with RuntimeError: no session, no query,
\* no retry, no sleep. The synchronous get_session does so when no driver is
\* held.
C5_NotInitializedFails ==
  [][\A t \in Tasks :
       /\ \A o \in AcquireOps :
            (Calls(t, o) /\ ~ is_initialized)
              => /\ pc'[t] = "done" /\ result'[t] = "RuntimeError"
                 /\ obs'[t].sessions = 0 /\ obs'[t].queries = 0
                 /\ obs'[t].sleeps = 0 /\ obs'[t].calls <= 1
                 /\ loc'[t].sess = "none"
       /\ (Calls(t, "get_session") /\ sync_driver = NoDriver)
              => /\ pc'[t] = "done" /\ result'[t] = "RuntimeError"
                 /\ obs'[t].sessions = 0 /\ loc'[t].sess = "none"]_vars

\* A retry-wrapped helper has failed with RuntimeError after a close.
C5_Witness ==
  \E t \in Tasks :
    /\ pc[t] = "done" /\ op[t] = "run_query" /\ result[t] = "RuntimeError"
    /\ obs[t].calls = 1 /\ obs[t].sleeps = 0 /\ obs[t].sessions = 0
    /\ \E d \in DriverIds : drivers[d] = "closed"

ScopeOps == {"session", "get_db_session", "get_session"}

\* C6: a scoped session acquisition closes its session exactly once when the
\* scope exits, for every outcome of the body, and not before.
C6_SessionClosedOnce ==
  \A t \in Tasks :
    op[t] \in ScopeOps =>
      /\ obs[t].sessions <= 1 /\ obs[t].sclosed <= obs[t].sessions
      /\ pc[t] \in {"sess_body", "sync_body"} => obs[t].sclosed = 0
      /\ (pc[t] = "done" /\ obs[t].sessions = 1)
           => (obs[t].sclosed = 1 /\ loc[t].sess = "closed")

\* A scope whose body raised has exited with its session closed once.
C6_Witness ==
  \E t \in Tasks :
    /\ op[t] \in ScopeOps /\ pc[t] = "done"
    /\ loc[t].err = "ValueError" /\ result[t] = "ValueError"
    /\ obs[t].sessions = 1 /\ obs[t].sclosed = 1

\* C7: in run_transaction, once a statement has failed commit is never
\* invoked, no effect of the batch is observable and the transaction ends
\* closed; effects are observable only when all n statements succeeded and
\* the commit completed, and then they are those of all n statements.
C7_TxAtomic ==
  \A t \in Tasks :
    op[t] = "run_transaction" =>
      /\ loc[t].failedAt # 0
           => /\ obs[t].commits = 0 /\ obs[t].effects = {}
              /\ pc[t] = "done"
                   => /\ loc[t].tx = "closed"
                      /\ obs[t].rollbacks + obs[t].txcloses >= 1
      /\ obs[t].effects # {}
           => /\ loc[t].failedAt = 0 /\ loc[t].k = loc[t].n
              /\ obs[t].commits = 1 /\ obs[t].rollbacks = 0
              /\ obs[t].effects = 1..loc[t].n

\* The second statement of a batch of two has failed: rolled back, nothing
\* observable.
C7_Witness ==
  \E t \in Tasks :
    /\ op[t] = "run_transaction" /\ pc[t] = "done"
    /\ loc[t].n >= 2 /\ loc[t].failedAt = 2 /\ loc[t].k = 1
    /\ obs[t].rollbacks = 1 /\ obs[t].commits = 0 /\ obs[t].effects = {}

\* C8: in the scoped transaction, when the body completes without error
\* commit is invoked and rollback is not; when the body raises an error
\* rollback is invoked and commit never.
C8_CommitXorRollback ==
  \A t \in Tasks :
    (op[t] = "run_transaction" /\ loc[t].body # "run") =>
      /\ loc[t].body = "ok"
           => (obs[t].commits = 1 /\ obs[t].rollbacks = 0)
      /\ (loc[t].body # "ok" /\ IsInstance(loc[t].body, "Exception"))
           => (obs[t].commits = 0 /\ obs[t].rollbacks = 1)

\* C9: when the scoped transaction has exited, on every path, the
\* transaction it began is closed and its session has been closed.
C9_TxAlwaysReleased ==
  \A t \in Tasks :
    (op[t] = "run_transaction" /\ pc[t] = "done" /\ obs[t].sessions = 1)
      => /\ loc[t].tx # "open"
         /\ loc[t].tx = "none" => loc[t].body = "run"
         /\ loc[t].sess = "closed" /\ obs[t].sclosed = 1

\* The caller was cancelled while suspended in the body: the transaction was
\* closed by the finally clause, and the session after it.
C9_Witness ==
  \E t \in Tasks :
    /\ op[t] = "run_transaction" /\ pc[t] = "done"
    /\ loc[t].body = "CancelledError"
    /\ loc[t].tx = "closed" /\ obs[t].txcloses = 1 /\ obs[t].rollbacks = 0
    /\ loc[t].sess = "closed"

\* The exceptions the claim classifies as transient and as permanent.
TransientKinds == {"ServiceUnavailable", "SessionExpired", "TransientError",
                   "DatabaseUnavailable"}
PermanentKinds == {"AuthError", "ClientError", "CypherSyntaxError"}

\* C10: when an attempt of a retry-wrapped helper raises an authentication
\* or client error, the call ends at once with that error, without a sleep
\* and without another invocation (one invocation in all when it is the
\* first attempt); a sleep or a further invocation happens only after a
\* service-unavailable, session-expired or transient error.
C10_NoRetryOnPermanent ==
  [][\A t \in Tasks :
       /\ (pc[t] = "h_close" /\ pc'[t] # "h_close"
             /\ loc'[t].raised \in PermanentKinds)
            => /\ pc'[t] = "done" /\ result'[t] = loc'[t].raised
               /\ obs'[t].sleeps = obs[t].sleeps
               /\ obs'[t].calls = obs[t].calls
               /\ loc[t].attempt = 0
                    => (obs'[t].calls = 1 /\ obs'[t].sleeps = 0)
       /\ obs'[t].sleeps > obs[t].sleeps
            => loc'[t].raised \in TransientKinds
       /\ (obs'[t].calls > obs[t].calls /\ obs[t].calls > 0)
            => (pc[t] = "h_sleep" /\ loc[t].raised \in TransientKinds)]_vars

\* A wrapped helper has failed with an authentication error on its first
\* attempt.
C10_Witness ==
  \E t \in Tasks :
    /\ op[t] \in WrappedOps /\ pc[t] = "done" /\ result[t] = "AuthError"
    /\ obs[t].calls = 1 /\ obs[t].sleeps = 0 /\ obs[t].warnings = 0

\* C11: a call of a retry-wrapped helper ends with a transient-classified
\* error only when every attempt failed with one: the helper was then invoked
\* max_retries + 1 times, max_retries sleeps were started, the exhaustion was
\* logged once, and the error the caller gets is the one the last attempt
\* raised. While the call goes on, the invocations are one more than the
\* sleeps and never more than max_retries + 1.
C11_ExhaustionReraisesLast ==
  \A t \in Tasks :
    op[t] \in WrappedOps =>
      /\ obs[t].calls <= max_retries + 1 /\ obs[t].sleeps <= max_retries
      /\ (pc[t] = "done" /\ result[t] \in TransientKinds)
           => /\ obs[t].calls = max_retries + 1
              /\ obs[t].sleeps = max_retries
              /\ obs[t].warnings = max_retries
              /\ obs[t].errors = 1
              /\ loc[t].attempt = max_retries
              /\ result[t] = loc[t].raised
      /\ (pc[t] = "done" /\ obs[t].errors = 1)
           => (result[t] = loc[t].raised /\ result[t] \in TransientKinds)

\* Four attempts have failed and the caller got the session-expired error of
\* the last one.
C11_Witness ==
  \E t \in Tasks :
    /\ op[t] = "run_write" /\ pc[t] = "done"
    /\ result[t] = "SessionExpired" /\ loc[t].raised = "SessionExpired"
    /\ obs[t].calls = 4 /\ obs[t].sleeps = 3 /\ obs[t].errors = 1

\* C12: when a retry-wrapped helper returns a result, after k transient
\* failures (0 <= k <= max_retries), exactly k retry warnings were logged and
\* k sleeps made, it was invoked k + 1 times, and no exhaustion error was
\* logged.
C12_SuccessAfterRetries ==
  \A t \in Tasks :
    (op[t] \in WrappedOps /\ pc[t] = "done" /\ result[t] = "ok")
      => /\ loc[t].attempt \in 0..max_retries
         /\ obs[t].warnings = loc[t].attempt
         /\ obs[t].sleeps = loc[t].attempt
         /\ obs[t].calls = loc[t].attempt + 1
         /\ obs[t].errors = 0
         /\ loc[t].raised = "ok"

\* Three transient failures, then success: three warnings, no error.
C12_Witness ==
  \E t \in Tasks :
    /\ op[t] = "run_query" /\ pc[t] = "done" /\ result[t] = "ok"
    /\ loc[t].attempt = 3 /\ obs[t].warnings = 3 /\ obs[t].sleeps = 3
    /\ obs[t].calls = 4 /\ obs[t].errors = 0

\* C13: the delay computed before the retry that follows attempt i
\* (0-based) is min(base_delay * exponential_base^i, max_delay): never above
\* max_delay, not below the delay of the retry before (the multipliers are
\* at least 1), and 1, 2 and 4 seconds for attempts 0, 1, 2 under the
\* defaults; the delay slept after jitter is at least 75% and at most 125%
\* of it.
C13_BackoffDelay ==
  [][\A t \in Tasks :
       pc'[t] = "w_sleep" =>
         LET p == loc'[t].policy
             i == loc'[t].attempt
             d == loc'[t].delay IN
         /\ d <= p.max_delay
         /\ d <= p.base_delay * Pow(p.exponential_base, i)
         /\ d = p.max_delay \/ d = p.base_delay * Pow(p.exponential_base, i)
         /\ (pc[t] = "w_try" /\ i > 0) => d >= loc[t].delay
         /\ (p.base_delay = 1000 /\ p.exponential_base = 2
               /\ p.max_delay = 30000 /\ i <= 2)
              => d = << 1000, 2000, 4000 >>[i + 1]
         /\ loc'[t].slept >= 1500 * d
         /\ loc'[t].slept <= 2500 * d]_vars

\* Under the defaults with more retries, the sixth retry would wait 32
\* seconds and is capped at 30.
C13_Witness ==
  \E t \in Tasks :
    /\ pc[t] = "w_sleep" /\ loc[t].attempt = 5
    /\ loc[t].policy.base_delay = 1000 /\ loc[t].policy.exponential_base = 2
    /\ loc[t].policy.max_delay = 30000
    /\ loc[t].delay = 30000 /\ loc[t].slept > 2000 * 30000

\* The helpers that with_retry does not decorate.
UnwrappedOps == {"run_transaction"} \cup ManagedOps

\* C14 as stated: a call of any of the six query helpers ends with a
\* transient-classified error only after the wrapper has retried it up to
\* the policy limit, with a sleep before each retry.
C14_Original ==
  \A t \in Tasks :
    (op[t] \in WrappedOps \cup UnwrappedOps /\ pc[t] = "done"
       /\ result[t] \in TransientKinds)
      => (obs[t].sleeps = max_retries /\ obs[t].calls = max_retries + 1)

\* C14 amended: in run_query, run_query_single and run_write an attempt that
\* ends with a transient-classified error before the policy limit is
\* followed by a backoff sleep instead of reaching the caller, and the error
\* reaches the caller only from attempt max_retries; run_transaction,
\* run_read_transaction and run_write_transaction are not decorated: they
\* open one session, never sleep, and an error they raise reaches the caller
\* from the only invocation.
C14_OnlyThreeWrapped ==
  [][\A t \in Tasks :
       /\ (op[t] \in WrappedOps /\ pc[t] = "h_close" /\ pc'[t] # "h_close"
             /\ loc'[t].raised \in TransientKinds)
            => IF loc[t].attempt < max_retries
                 THEN /\ pc'[t] = "h_sleep"
                      /\ obs'[t].sleeps = obs[t].sleeps + 1
                 ELSE /\ pc'[t] = "done" /\ result'[t] = loc'[t].raised
                      /\ obs'[t].sleeps = max_retries
       /\ op'[t] \in UnwrappedOps
            => /\ obs'[t].sleeps = 0 /\ obs'[t].warnings = 0
               /\ obs'[t].calls = 0 /\ obs'[t].sessions <= 1
               /\ pc'[t] \notin {"h_sleep", "w_sleep"}]_vars

\* run_transaction has ended with the transient error of a statement after
\* a single pass: one session, a rollback, no sleep.
C14_Witness ==
  \E t \in Tasks :
    /\ op[t] = "run_transaction" /\ pc[t] = "done"
    /\ result[t] = "TransientError" /\ loc[t].failedAt = 1
    /\ obs[t].sessions = 1 /\ obs[t].rollbacks = 1 /\ obs[t].sleeps = 0

\* A call of health_check by task t has ended.
HealthDone(t) == op[t] = "health_check" /\ pc[t] = "done"

\* The call found the manager not initialized: it opened no session and no
\* step raised.
FoundUninitialized(t) == obs[t].sessions = 0 /\ loc[t].step = "none"

\* C15: health_check lets no failure of the backend through: whatever the
\* state of the manager, an exception raised by the session open, the
\* liveness query, the server-identity query, the extension probe or the
\* session release ends in a returned HealthCheckResult with status
\* unhealthy, connected false and the error set. Only the cancellation of
\* the caller (not an Exception) leaves health_check as an exception.
C15_HealthNeverRaises ==
  \A t \in Tasks :
    HealthDone(t) =>
      /\ result[t] # "ok"
           => (result[t] = "CancelledError" /\ loc[t].err = "CancelledError")
      /\ (loc[t].err # "ok" /\ IsInstance(loc[t].err, "Exception"))
           => /\ result[t] = "ok"
              /\ loc[t].step # "none"
              /\ loc[t].ret.status = "unhealthy"
              /\ ~ loc[t].ret.neo4j_connected
              /\ loc[t].ret.error # None /\ Len(loc[t].ret.error[1]) > 0
      /\ result[t] = "ok" => loc[t].ret.status \in {"healthy", "unhealthy"}

\* The server-identity query failed after a good liveness probe, and the
\* failure came back as a result.
C15_Witness ==
  \E t \in Tasks :
    /\ HealthDone(t) /\ result[t] = "ok"
    /\ loc[t].live = "one" /\ loc[t].step = "info"
    /\ loc[t].err = "ClientError"
    /\ loc[t].ret.status = "unhealthy" /\ loc[t].ret.error = Some("ClientError")

\* C16: health_check called while the manager is not initialized (never
\* initialized, closed, or left by a failed init) returns at once status
\* unhealthy, connected false and a non-empty error, and opens no session
\* and issues no query.
C16_UninitializedNoNetwork ==
  [][\A t \in Tasks :
       (Calls(t, "health_check") /\ ~ is_initialized)
         => /\ pc'[t] = "done" /\ result'[t] = "ok"
            /\ loc'[t].ret.status = "unhealthy"
            /\ ~ loc'[t].ret.neo4j_connected
            /\ loc'[t].ret.error # None /\ Len(loc'[t].ret.error[1]) > 0
            /\ obs'[t].sessions = 0 /\ obs'[t].queries = 0
            /\ loc'[t].sess = "none"
            /\ UNCHANGED << manager, drivers, closes >>]_vars

\* health_check has answered unhealthy on a closed manager, without a
\* session.
C16_Witness ==
  \E t \in Tasks :
    /\ HealthDone(t) /\ result[t] = "ok"
    /\ driver = NoDriver /\ \E d \in DriverIds : drivers[d] = "closed"
    /\ loc[t].ret.error = Some("Neo4j driver not initialized")
    /\ obs[t].sessions = 0 /\ obs[t].queries = 0

\* C17 as stated (with a failure to open or to release the session counted
\* as a failure of the liveness probe): the returned status is unhealthy
\* exactly when the manager is not initialized, the liveness probe fails, or
\* it gives something other than 1; otherwise it is healthy.
C17_Original ==
  \A t \in Tasks :
    (HealthDone(t) /\ result[t] = "ok") =>
      /\ loc[t].ret.status = "unhealthy"
           <=> \/ FoundUninitialized(t)
               \/ loc[t].live \in {"raised", "other"}
               \/ loc[t].step \in {"open", "close"}
      /\ loc[t].ret.status # "unhealthy" => loc[t].ret.status = "healthy"

\* C17 amended: the returned status is unhealthy exactly when the manager is
\* not initialized, or a step of the check raises an exception that is not
\* swallowed (session open, liveness query, server-identity query, the
\* extension probe failing with something else than a Neo4jError, session
\* release), or the liveness probe gives no record or a value other than 1;
\* otherwise it is healthy with connected true and latency_ms >= 0, for
\* detailed false and true alike.
C17_StatusDerivation ==
  \A t \in Tasks :
    (HealthDone(t) /\ result[t] = "ok") =>
      /\ loc[t].ret.status = "unhealthy"
           <=> \/ FoundUninitialized(t)
               \/ loc[t].live \in {"raised", "other"}
               \/ loc[t].step # "none"
      /\ loc[t].ret.status # "unhealthy"
           => /\ loc[t].ret.status = "healthy"
              /\ loc[t].live = "one"
              /\ loc[t].ret.neo4j_connected
              /\ loc[t].ret.latency_ms # None
              /\ loc[t].ret.latency_ms[1] >= 0

\* A detailed check of an Initialized manager with a good backend has
\* answered healthy.
C17_Witness ==
  \E t \in Tasks :
    /\ HealthDone(t) /\ result[t] = "ok" /\ loc[t].detailed
    /\ loc[t].live = "one" /\ loc[t].gds = "present"
    /\ loc[t].ret.status = "healthy" /\ loc[t].ret.neo4j_connected
    /\ loc[t].ret.latency_ms = Some(12)

\* C18: in a detailed check whose liveness and server-identity queries
\* succeeded, the extension probe failing because the extension is absent
\* (a client error) is never the failure of the check: unless the session
\* release fails, the result is healthy and connected, with gds_available
\* false and gds_version absent, and every other field as with the
\* extension present.
C18_GdsAbsentStillHealthy ==
  \A t \in Tasks :
    (op[t] = "health_check" /\ loc[t].gds = "ClientError") =>
      /\ loc[t].detailed /\ loc[t].live = "one"
      /\ loc[t].step # "gds"
      /\ loc[t].step = "none" => loc[t].err = "ok"
      /\ (pc[t] = "done" /\ loc[t].step = "none")
           => /\ result[t] = "ok"
              /\ loc[t].ret =
                   [Healthy(loc[t], Some(TRUE), Some("2.5.0")) EXCEPT
                      !.gds_available = Some(FALSE), !.gds_version = None]
              /\ loc[t].ret.status = "healthy"
              /\ loc[t].ret.neo4j_connected
              /\ loc[t].ret.error = None

\* A detailed check without the extension has answered healthy.
C18_Witness ==
  \E t \in Tasks :
    /\ HealthDone(t) /\ result[t] = "ok" /\ loc[t].gds = "ClientError"
    /\ loc[t].ret.status = "healthy"
    /\ loc[t].ret.gds_available = Some(FALSE) /\ loc[t].ret.gds_version = None
    /\ loc[t].ret.neo4j_version = Some("5.13.0")

\* C19: every HealthCheckResult health_check returns has status healthy or
\* unhealthy, never degraded; it is healthy exactly when neo4j_connected is
\* true, then without an error, and unhealthy with an error.
C19_TwoValuedStatus ==
  \A t \in Tasks :
    (HealthDone(t) /\ result[t] = "ok") =>
      /\ loc[t].ret.status \in {"healthy", "unhealthy"}
      /\ loc[t].ret.status = "healthy" <=> loc[t].ret.neo4j_connected
      /\ loc[t].ret.status = "healthy" => loc[t].ret.error = None
      /\ loc[t].ret.status = "unhealthy" => loc[t].ret.error # None

\* A liveness probe that gave a value other than 1 has come back unhealthy
\* and not connected.
C19_Witness ==
  \E t \in Tasks :
    /\ HealthDone(t) /\ result[t] = "ok" /\ loc[t].live = "other"
    /\ loc[t].ret.status = "unhealthy" /\ ~ loc[t].ret.neo4j_connected
    /\ loc[t].ret.error
         = Some("Health check query returned unexpected result")

\* The driver handles that have been created and not closed.
LiveDrivers == { d \in DriverIds : drivers[d] = "open" }

\* C20: over any sequence of init and close calls, at most one driver
\* handle is created and not yet closed, and it is the one the manager
\* holds.
C20_AtMostOneLiveDriver ==
  /\ Cardinality(LiveDrivers) <= 1
  /\ \A d \in LiveDrivers : driver = d

\* C21: when close() completes the manager is not initialized, holds no
\* driver, and the driver it held is closed; an init() call made afterwards
\* with a valid configuration creates a new driver, and when its
\* connectivity probe succeeds the call ends with the manager Initialized on
\* that open driver; the manager becomes Initialized only by an init() call
\* that returns; and on an Initialized manager session acquisition opens a
\* session on the held driver.
C21_ReinitAfterClose ==
  [][\A t \in Tasks :
       /\ (pc[t] = "close_wait" /\ pc'[t] = "done")
            => /\ ~ is_initialized' /\ driver' = NoDriver
               /\ drivers'[held[t]] = "closed"
       /\ \A i \in InitInputs :
            (/\ InitCall(t, i[1], i[2], i[3])
             /\ driver = NoDriver /\ Validate(EffectiveConfig(i)) = "ok"
             /\ i[3])
              => /\ pc'[t] = "init_verify" /\ obs'[t].created = 1
                 /\ drivers[driver'] = "none" /\ drivers'[driver'] = "open"
       /\ InitVerify(t, "ok")
            => \/ pc'[t] = "init_info" /\ driver' = held[t]
               \/ pc'[t] = "done" /\ result'[t] = "ok"
       /\ (op[t] = "init" /\ pc[t] \in {"init_verify", "init_info"}
             /\ pc'[t] = "done" /\ result'[t] = "ok")
            => /\ is_initialized' /\ driver' = held[t]
               /\ drivers'[driver'] = "open"
       /\ (~ is_initialized /\ is_initialized')
            => \E u \in Tasks :
                 /\ op[u] = "init" /\ pc[u] # "done"
                 /\ pc'[u] = "done" /\ result'[u] = "ok"
       /\ \A o \in SessionOps :
            (Calls(t, o) /\ is_initialized)
              => /\ pc'[t] = "sess_body" /\ loc'[t].sess = "open"
                 /\ held'[t] = driver /\ drivers[driver] = "open"]_vars

\* After a close and a fresh init, a session is open on the second driver.
C21_Witness ==
  \E t \in Tasks :
    /\ is_initialized /\ drivers[driver] = "open"
    /\ \E d \in DriverIds : d # driver /\ drivers[d] = "closed"
    /\ pc[t] = "sess_body" /\ loc[t].sess = "open" /\ held[t] = driver

\* The init calls that are suspended at one of their await points.
InitsInFlight ==
  { t \in Tasks : op[t] = "init" /\ pc[t] \in {"init_verify", "init_info"} }

\* C22: init() calls that run concurrently create one driver handle between
\* them, and while the manager is Initialized the held handle is replaced
\* only by close(), which drops it.
C22_DriverCreatedOnce ==
  [][/\ \A t, u \in InitsInFlight' :
          t # u => obs'[t].created + obs'[u].created <= 1
     /\ (is_initialized /\ driver' # driver) => driver' = NoDriver]_vars

\* C27: whenever the initialized flag is set, the manager holds a driver
\* handle that is not closed.
C27_InitializedHasDriver ==
  initialized => (driver # NoDriver /\ drivers[driver] = "open")

\* C28: every open session belongs to a driver handle that has not been
\* closed.
C28_NoCloseUnderSession ==
  \A t \in Tasks : loc[t].sess = "open" => drivers[held[t]] = "open"

\* C23: when the body of the scoped transaction (a statement of
\* run_transaction included) raised an error, the error the caller of
\* run_transaction gets is that error, whatever rollback, tx.close() and
\* session.close() do while the scopes unwind.
C23_BodyErrorUnchanged ==
  \A t \in Tasks :
    (op[t] = "run_transaction" /\ pc[t] = "done"
       /\ loc[t].body \notin {"run", "ok"})
      => result[t] = loc[t].body

\* C26: in a call of a retry-wrapped helper every invocation opens its own
\* session, the session is open only while the attempt runs, and it has
\* been closed when the backoff sleep starts and when the call has ended:
\* at most one session of the call is open at any time.
C26_OneSessionPerAttempt ==
  \A t \in Tasks :
    op[t] \in WrappedOps =>
      /\ obs[t].sessions - obs[t].sclosed \in {0, 1}
      /\ obs[t].sessions = obs[t].calls
           \/ (obs[t].sessions = 0 /\ result[t] = "RuntimeError")
      /\ loc[t].sess = "open" <=> pc[t] \in {"h_run", "h_fetch", "h_close"}
      /\ pc[t] \in {"h_run", "h_fetch"}
           => obs[t].sclosed = obs[t].sessions - 1
      /\ pc[t] \in {"h_sleep", "done"}
           => /\ loc[t].sess # "open"
              /\ obs[t].sclosed = obs[t].sessions

\* The call sleeps before its third attempt with both sessions closed.
C26_Witness ==
  \E t \in Tasks :
    /\ op[t] \in WrappedOps /\ pc[t] = "h_sleep" /\ loc[t].attempt = 1
    /\ obs[t].sessions = 2 /\ obs[t].sclosed = 2 /\ loc[t].sess = "closed"

\* C29: within one call of run_write the statement takes effect at most
\* once.
C29_WriteAtMostOnce ==
  \A t \in Tasks : op[t] = "run_write" => obs[t].applied <= 1

\* A request of GET /health by task t has been answered.
Answered(t) == op[t] = "health_endpoint" /\ pc[t] = "done" /\ result[t] = "ok"

\* C24: the response of GET /health has status healthy, degraded or
\* unhealthy and status code 200 or 503; it is 503 with unhealthy exactly
\* when the database module is available and the health check reports not
\* connected, which it does whenever one of its steps failed; it is 200 with
\* healthy when the check reports connected; it is degraded, with 200 and
\* without any session, exactly when the database module is not available.
C24_EndpointStatus ==
  \A t \in Tasks :
    Answered(t) =>
      LET r == loc[t].resp IN
      /\ r.status \in {"healthy", "degraded", "unhealthy"}
      /\ r.code \in {200, 503}
      /\ r.code = 503 <=> r.status = "unhealthy"
      /\ r.status = "unhealthy"
           <=> (loc[t].available /\ ~ loc[t].ret.neo4j_connected)
      /\ (loc[t].available /\ loc[t].step # "none") => r.code = 503
      /\ (loc[t].available /\ loc[t].ret.neo4j_connected)
           => (r.status = "healthy" /\ r.code = 200 /\ loc[t].live = "one")
      /\ r.status = "degraded" <=> ~ loc[t].available
      /\ r.status = "degraded"
           => (r.code = 200 /\ obs[t].sessions = 0 /\ r.neo4j = None)

\* The liveness query failed and GET /health answered 503 unhealthy.
C24_Witness ==
  \E t \in Tasks :
    /\ Answered(t) /\ loc[t].available /\ loc[t].step = "live"
    /\ loc[t].resp.code = 503 /\ loc[t].resp.status = "unhealthy"
    /\ loc[t].resp.error = Some("Service unavailable: ServiceUnavailable")

\* The failures of init() the startup may meet.
StartupFailures == {"ValueError", "AuthError", "ServiceUnavailable"}

C30_LifespanReleases ==
  [][\A t \in Tasks :
       (loc[t].lifespan = "neo4j" /\ loc[t].phase = "serving"
          /\ loc'[t].phase = "left")
         => /\ ~ is_initialized'
            /\ \A d \in DriverIds : drivers'[d] # "open"]_vars
====
